---------------------------- MODULE Spec2Model ----------------------------
(***************************************************************************)
(* LightDancer: the WS2811 frame-transmission channel, the pixel Frame,    *)
(* the LED effects and the fixed-point FFT engine, as state machines.      *)
(*                                                                         *)
(* Five sub-systems share this module; each has its own specification     *)
(* (TxSpec, FxSpec, ArSpec, FftSpec, SizeSpec) in which the variables of   *)
(* the other sub-systems stay at their initial values.                     *)
(*                                                                         *)
(* TLC's integers are 32-bit signed, so a C++ `unsigned int` / `size_t`    *)
(* (32 bits on the RP2040 target) is held as a record of two 16-bit        *)
(* halves [hi, lo]; int16_t / int32_t values are plain integers, wrapped   *)
(* by ToInt16 where the code narrows them.                                 *)
(***************************************************************************)
EXTENDS Integers, Sequences, FiniteSets, TLC

VARIABLES
    \* ---- WS2811Pio (leds/ws2811pio/ws2811pio.h) ----
    instance_,            \* static WS2811Pio* instance_ (Null or an object id)
    live,                 \* the WS2811Pio objects constructed and not destroyed
    aborted,              \* abort() was called: the process is gone
    ctor_calls,           \* number of WS2811Pio constructor calls so far
    phase,                \* "Idle" | "Transmitting" | "ResetPending"
    main_pc,              \* main path: "compose" | "in_send"
    cursor,               \* words the DMA channel still has to move
    send_words,           \* length in words of the frame handed to send()
    frames_started,       \* number of transfers send() has started
    in_flight,            \* frames started and not yet through their reset gap
    hist,                 \* phases the most recently started frame went through
    waited,               \* the latest send() was called while not Idle
    \* ---- Frame (draw.h) ----
    frame_made,           \* a Frame has been constructed
    num_of_leds,          \* the constructor's int argument
    num_leds,             \* Frame::num_leds (unsigned int, as [hi, lo])
    data_size,            \* Frame::data.size() (size_t, as [hi, lo])
    \* ---- EffectFactory / effects (effects/) ----
    ev_,                  \* alternative held by the variant
    position,             \* LaserEffect::position
    laser_length,         \* LaserEffect::laser_length
    cum_elapsed_time_us,  \* LaserEffect::cum_elapsed_time_us
    is_on,                \* BlinkEffect::is_on
    wr_hi,                \* highest pixel index written by the last draw_frame (-1: none)
    draws,                \* number of draw_frame calls so far
    \* ---- Q15 saturating arithmetic (fixedpoint_fft.h) ----
    arg_a, arg_b,         \* the two int16_t operands
    ar_op,                \* "none" | "add" | "sub" | "mul": the operation applied
    ar_res,               \* its int16_t result
    \* ---- FixedPointFFT (fixedpoint_fft.h) ----
    fft_n,                \* template parameter N
    fft_window,           \* template parameter Window
    in_bits,              \* width of InputType: 16 (int16_t) or 32 (int32_t)
    out_bits,             \* width of OutputType: 16 (uint16_t) or 32 (uint32_t)
    input,                \* the sample block handed to magnitudes()
    real, imag,           \* the working buffers of magnitudes()
    scale_count,          \* right shifts applied by the rescale guard
    stage,                \* butterfly stage about to run (1..log2 N)
    fft_pc,               \* position inside magnitudes()
    max_magnitude,        \* normalize_magnitudes_uint16: pass-1 peak
    norm_shift,           \* normalize_magnitudes_uint16: the uniform shift
    magnitudes,           \* the output block
    \* ---- FixedPointFFT<N, ...> instantiation (fixedpoint_fft.h) ----
    size_n,               \* the uint16_t template argument N
    size_pc,              \* "assert" | "arrays" | "end": position in the build
    size_accepted,        \* the size check's static_assert held
    build_ok              \* the instantiation compiled

txVars == <<instance_, live, aborted, ctor_calls, phase, main_pc, cursor, send_words,
            frames_started, in_flight, hist, waited>>
fxVars == <<frame_made, num_of_leds, num_leds, data_size, ev_, position,
            laser_length, cum_elapsed_time_us, is_on, wr_hi, draws>>
arVars == <<arg_a, arg_b, ar_op, ar_res>>
fftVars == <<fft_n, fft_window, in_bits, out_bits, input, real, imag,
             scale_count, stage, fft_pc, max_magnitude, norm_shift, magnitudes>>
szVars == <<size_n, size_pc, size_accepted, build_ok>>
vars   == <<txVars, fxVars, arVars, fftVars, szVars>>

-----------------------------------------------------------------------------
(* Bounds of the model *)
MaxObjs       == 2    \* WS2811Pio objects the program may try to construct
MaxCtorCalls  == 3    \* WS2811Pio constructor calls explored
MaxFrames     == 3    \* send() calls explored
MaxFrameWords == 2    \* longest frame, in 32-bit transfer words
ResetWords    == 2    \* num_words_to_reset_: all-zero words of the reset gap
MaxDraws      == 12   \* draw_frame calls explored
MaxIndex      == 3    \* largest index passed to set_effect

-----------------------------------------------------------------------------
(* Integer widths *)

\* int -> int16_t (two's complement narrowing)
ToInt16(x) == ((x + 32768) % 65536) - 32768

\* int -> 32-bit unsigned (unsigned int, size_t), as two 16-bit halves
U32(x) == [hi |-> (x \div 65536) % 65536, lo |-> x % 65536]

\* the unsigned value u is the (non-negative) integer k
U32Is(u, k) == k >= 0 /\ u = U32(k)

\* the unsigned value u is at most the integer k, 0 <= k < 65536
U32AtMost(u, k) == u.hi = 0 /\ u.lo <= k

Min(a, b) == IF a < b THEN a ELSE b
Max(a, b) == IF a > b THEN a ELSE b

-----------------------------------------------------------------------------
(***************************************************************************)
(* WS2811Pio: the transmission channel.  ws2811pio.h declares the class    *)
(* and documents its contract; the bodies of the constructor, send() and   *)
(* the DMA interrupt handler are modelled from the specification (§4.3,   *)
(* §5) and from the plan written in main.cpp ("wait until any DMA is       *)
(* complete (IRQ handler sends RESET and flags done); setup DMA to read    *)
(* from frame; start DMA and return").                                     *)
(***************************************************************************)
Null == 0
Objs == 1..MaxObjs

TxInit ==
    /\ instance_ = Null
    /\ live = {}
    /\ aborted = FALSE
    /\ ctor_calls = 0
    /\ phase = "Idle"
    /\ main_pc = "compose"
    /\ cursor = 0
    /\ send_words = 0
    /\ frames_started = 0
    /\ in_flight = 0
    /\ hist = <<>>
    /\ waited = FALSE

\* Faulty variant of CtorClaimsInstance: the constructor registers itself without
\* looking at instance_.
CtorClaimsInstance_NoGuard(o) ==
    /\ instance_' = o
    /\ live' = live \cup {o}
    /\ aborted' = FALSE

\* WS2811Pio::WS2811Pio(bps, pin): a second instance is a fatal
\* configuration error (abort()); otherwise the object becomes instance_.
CtorClaimsInstance(o) ==
    IF instance_ # Null
    THEN /\ aborted' = TRUE
         /\ UNCHANGED <<instance_, live>>
    ELSE /\ instance_' = o
         /\ live' = live \cup {o}
         /\ aborted' = FALSE

Construct(o) ==
    /\ ~aborted
    /\ main_pc = "compose"
    /\ o \notin live
    /\ ctor_calls < MaxCtorCalls
    /\ ctor_calls' = ctor_calls + 1
    /\ CtorClaimsInstance(o)
    /\ UNCHANGED <<phase, main_pc, cursor, send_words, frames_started,
                   in_flight, hist, waited>>
    /\ UNCHANGED <<fxVars, arVars, fftVars, szVars>>

\* WS2811Pio::~WS2811Pio(): hardware disabled at shutdown, once the channel
\* is Idle; the singleton slot is released.
Destruct(o) ==
    /\ ~aborted
    /\ main_pc = "compose"
    /\ o \in live
    /\ phase = "Idle"
    /\ live' = live \ {o}
    /\ instance_' = IF instance_ = o THEN Null ELSE instance_
    /\ UNCHANGED <<aborted, ctor_calls, phase, main_pc, cursor, send_words,
                   frames_started, in_flight, hist, waited>>
    /\ UNCHANGED <<fxVars, arVars, fftVars, szVars>>

\* The main path calls send(frame) with a frame of w transfer words.
SendCall(w) ==
    /\ ~aborted
    /\ main_pc = "compose"
    /\ instance_ # Null
    /\ frames_started < MaxFrames
    /\ main_pc' = "in_send"
    /\ send_words' = w
    /\ waited' = (phase # "Idle")
    /\ UNCHANGED <<instance_, live, aborted, ctor_calls, phase, cursor, frames_started,
                   in_flight, hist>>
    /\ UNCHANGED <<fxVars, arVars, fftVars, szVars>>

\* Faulty variant of SendMayStart: send() starts the transfer without waiting.
SendMayStart_NoWait == TRUE

\* send(): "if not Idle, blocks until Idle".
SendMayStart == phase = "Idle"

\* send() starts the DMA transfer of the frame and returns.
SendStart ==
    /\ ~aborted
    /\ main_pc = "in_send"
    /\ SendMayStart
    /\ phase' = "Transmitting"
    /\ cursor' = send_words
    /\ main_pc' = "compose"
    /\ frames_started' = frames_started + 1
    /\ in_flight' = in_flight + 1
    /\ hist' = <<"Transmitting">>
    /\ UNCHANGED <<instance_, live, aborted, ctor_calls, send_words, waited>>
    /\ UNCHANGED <<fxVars, arVars, fftVars, szVars>>

\* The DMA engine moves one word to the PIO state machine.
DmaWord ==
    /\ ~aborted
    /\ phase # "Idle"
    /\ cursor > 0
    /\ cursor' = cursor - 1
    /\ UNCHANGED <<instance_, live, aborted, ctor_calls, phase, main_pc, send_words,
                   frames_started, in_flight, hist, waited>>
    /\ UNCHANGED <<fxVars, arVars, fftVars, szVars>>

\* Faulty variant of IrqNextPhase: the handler sends the reset signal again when the
\* reset transfer completes, and never flags the channel Idle.
IrqNextPhase_NeverIdle(p) == "ResetPending"

\* dma_irq_handler(): data complete -> send_reset_signal(); reset complete
\* -> Idle.
IrqNextPhase(p) == IF p = "Transmitting" THEN "ResetPending" ELSE "Idle"

\* The transfer-complete interrupt is delivered.
DmaIrq ==
    /\ ~aborted
    /\ phase # "Idle"
    /\ cursor = 0
    /\ phase' = IrqNextPhase(phase)
    /\ cursor' = IF phase' = "ResetPending" THEN ResetWords ELSE 0
    /\ in_flight' = IF phase' = "Idle" THEN in_flight - 1 ELSE in_flight
    /\ hist' = IF Len(hist) < 4 THEN Append(hist, phase') ELSE hist
    /\ UNCHANGED <<instance_, live, aborted, ctor_calls, main_pc, send_words,
                   frames_started, waited>>
    /\ UNCHANGED <<fxVars, arVars, fftVars, szVars>>

TxNext ==
    \/ \E o \in Objs : Construct(o)
    \/ \E o \in Objs : Destruct(o)
    \/ \E w \in 1..MaxFrameWords : SendCall(w)
    \/ SendStart
    \/ DmaWord
    \/ DmaIrq

-----------------------------------------------------------------------------
(***************************************************************************)
(* Frame (draw.h)                                                          *)
(***************************************************************************)
MAX_LEDS == 3800

\* #define MULTIPLE_OF_FOUR(n) ((n + 3) / 4) * 4, expanded textually
MULTIPLE_OF_FOUR(n) == ((n + 3) \div 4) * 4

MAX_LED_DATA_LEN == MULTIPLE_OF_FOUR(MAX_LEDS)

\* Values of the constructor's int parameter explored: around zero, small
\* strips, around MAX_LEDS, above the backing storage, and the ends of int.
Requests == {-2147483647 - 1, -1, 0, 5, 20, 39, 3799, 3800, 3801, 5000,
             2147483647}

\* num_leds(std::min(num_of_leds, MAX_LEDS)): the int minimum, converted to
\* the member's type, unsigned int.
ClampedNumLeds(n) == U32(Min(n, MAX_LEDS))

\* data(&inner_data_[0], num_of_leds): the span's size_t length is the
\* constructor's argument itself, converted to size_t.
SpanLength(n) == U32(n)

\* Frame::Frame(int num_of_leds)
FrameCtor(n) ==
    /\ ~frame_made
    /\ frame_made' = TRUE
    /\ num_of_leds' = n
    /\ num_leds' = ClampedNumLeds(n)
    /\ data_size' = SpanLength(n)
    /\ UNCHANGED <<ev_, position, laser_length, cum_elapsed_time_us, is_on,
                   wr_hi, draws>>
    /\ UNCHANGED <<txVars, arVars, fftVars, szVars>>

-----------------------------------------------------------------------------
(***************************************************************************)
(* EffectFactory and the effects (effects/effect_factory.*, effects_lib.h) *)
(***************************************************************************)

\* DrawInfo::elapsed_time_us values explored.  With these multiples of
\* 25 ms, cum_elapsed_time_us / 50'000.0f is a multiple of 0.5 and its
\* product with laser_length is exact in single precision, so the float
\* expression equals the integer quotient used in LaserPosition.
ElapsedChoices == {0, 25000, 50000}

\* A frame is drawn when its sizes are plain non-negative ints.
Drawable == frame_made /\ num_of_leds >= 0 /\ draws < MaxDraws

NumLeds == num_leds.hi * 65536 + num_leds.lo
DataSize == data_size.hi * 65536 + data_size.lo

\* EffectFactory::EffectFactory(): ev_(LaserEffect{})
FxInit ==
    /\ frame_made = FALSE
    /\ num_of_leds = 0
    /\ num_leds = U32(0)
    /\ data_size = U32(0)
    /\ ev_ = "LaserEffect"
    /\ position = 0
    /\ laser_length = 0
    /\ cum_elapsed_time_us = 0
    /\ is_on = FALSE
    /\ wr_hi = -1
    /\ draws = 0

\* Faulty variant of EffectOfIndex: the switch has no default branch, so an
\* index that is not an EffectType leaves the alternative in place.
EffectOfIndex_NoDefault(index) ==
    CASE index = 0 -> "LaserEffect"
      [] index = 1 -> "BlinkEffect"
      [] index = 2 -> "BeatBlinkEffect"
      [] OTHER     -> ev_

\* The alternative set_effect's switch emplaces for an index.
EffectOfIndex(index) ==
    CASE index = 0 -> "LaserEffect"
      [] index = 1 -> "BlinkEffect"
      [] index = 2 -> "BeatBlinkEffect"
      [] OTHER     -> "LaserEffect"

\* EffectFactory::set_effect(index): emplace<> constructs a fresh effect.
SetEffect(index) ==
    /\ ev_' = EffectOfIndex(index)
    /\ position' = 0
    /\ laser_length' = 0
    /\ cum_elapsed_time_us' = 0
    /\ is_on' = FALSE
    /\ UNCHANGED <<frame_made, num_of_leds, num_leds, data_size, wr_hi, draws>>
    /\ UNCHANGED <<txVars, arVars, fftVars, szVars>>

\* position = (cum_elapsed_time_us / 50'000.0f) * laser_length, truncated
\* to unsigned int.
LaserPosition(cum, len) == (cum * len) \div 50000

\* Last index of `for (i = position; i <= position + laser_length; i++)`.
LaserBarEnd(pos, len) == pos + len

\* LaserEffect::draw_frame
LaserDraw(elapsed) ==
    /\ Drawable
    /\ ev_ = "LaserEffect"
    /\ LET len == IF laser_length = 0 THEN NumLeds \div 10 ELSE laser_length
           cum == cum_elapsed_time_us + elapsed
           pos == LaserPosition(cum, len)
           wrap == pos >= NumLeds
           p2  == IF wrap THEN 0 ELSE pos
       IN /\ laser_length' = len
          /\ position' = p2
          /\ cum_elapsed_time_us' = IF wrap THEN 0 ELSE cum
          \* std::fill over data, then the bar
          /\ wr_hi' = Max(DataSize - 1, LaserBarEnd(p2, len))
    /\ draws' = draws + 1
    /\ UNCHANGED <<frame_made, num_of_leds, num_leds, data_size, ev_, is_on>>
    /\ UNCHANGED <<txVars, arVars, fftVars, szVars>>

\* BlinkEffect::draw_frame
BlinkDraw(elapsed) ==
    /\ Drawable
    /\ ev_ = "BlinkEffect"
    /\ wr_hi' = DataSize - 1
    /\ is_on' = ~is_on
    /\ draws' = draws + 1
    /\ UNCHANGED <<frame_made, num_of_leds, num_leds, data_size, ev_, position,
                   laser_length, cum_elapsed_time_us>>
    /\ UNCHANGED <<txVars, arVars, fftVars, szVars>>

\* BeatBlinkEffect::draw_frame: empty body
BeatBlinkDraw(elapsed) ==
    /\ Drawable
    /\ ev_ = "BeatBlinkEffect"
    /\ wr_hi' = -1
    /\ draws' = draws + 1
    /\ UNCHANGED <<frame_made, num_of_leds, num_leds, data_size, ev_, position,
                   laser_length, cum_elapsed_time_us, is_on>>
    /\ UNCHANGED <<txVars, arVars, fftVars, szVars>>

FxNext ==
    \/ \E n \in Requests : FrameCtor(n)
    \/ \E index \in 0..MaxIndex : SetEffect(index)
    \/ \E e \in ElapsedChoices : LaserDraw(e)
    \/ \E e \in ElapsedChoices : BlinkDraw(e)
    \/ \E e \in ElapsedChoices : BeatBlinkDraw(e)

-----------------------------------------------------------------------------
(***************************************************************************)
(* Q15 saturating arithmetic (fixedpoint_fft.h)                            *)
(***************************************************************************)
Q15_ONE == 32767

RECURSIVE Pow2(_)
Pow2(k) == IF k = 0 THEN 1 ELSE 2 * Pow2(k - 1)

\* x >> k on a signed value: arithmetic shift
Shr(x, k) == x \div Pow2(k)

\* x << k
Shl(x, k) == x * Pow2(k)

\* Faulty variant of mul_q15: the product is assumed to fit and is narrowed without
\* the upper clamp.
mul_q15_NoUpperClamp(a, b) ==
    LET result == Shr(a * b, 15)
    IN IF result < -32768 THEN -32768 ELSE ToInt16(result)

\* int16_t mul_q15(int16_t a, int16_t b)
mul_q15(a, b) ==
    LET result == Shr(a * b, 15)
    IN IF result > Q15_ONE THEN Q15_ONE
       ELSE IF result < -32768 THEN -32768
       ELSE ToInt16(result)

\* int16_t add_sat(int16_t a, int16_t b)
add_sat(a, b) ==
    LET result == a + b
    IN IF result > Q15_ONE THEN Q15_ONE
       ELSE IF result < -32768 THEN -32768
       ELSE ToInt16(result)

\* int16_t sub_sat(int16_t a, int16_t b)
sub_sat(a, b) ==
    LET result == a - b
    IN IF result > Q15_ONE THEN Q15_ONE
       ELSE IF result < -32768 THEN -32768
       ELSE ToInt16(result)

\* int16_t operands explored: the ends of the range, the rescale threshold,
\* values whose squares straddle 2^15 and 2^29, and values around zero.
Q15Samples == {-32768, -32767, -23171, -16385, -16384, -8192, -182, -181,
               -2, -1, 0, 1, 2, 181, 182, 8192, 16384, 16385, 23171, 32766,
               32767}

ArInit ==
    /\ arg_a \in Q15Samples
    /\ arg_b \in Q15Samples
    /\ ar_op = "none"
    /\ ar_res = 0

ArParked ==
    /\ arg_a = 0
    /\ arg_b = 0
    /\ ar_op = "none"
    /\ ar_res = 0

ApplyAdd ==
    /\ ar_op = "none"
    /\ ar_op' = "add"
    /\ ar_res' = add_sat(arg_a, arg_b)
    /\ UNCHANGED <<arg_a, arg_b, txVars, fxVars, fftVars, szVars>>

ApplySub ==
    /\ ar_op = "none"
    /\ ar_op' = "sub"
    /\ ar_res' = sub_sat(arg_a, arg_b)
    /\ UNCHANGED <<arg_a, arg_b, txVars, fxVars, fftVars, szVars>>

ApplyMul ==
    /\ ar_op = "none"
    /\ ar_op' = "mul"
    /\ ar_res' = mul_q15(arg_a, arg_b)
    /\ UNCHANGED <<arg_a, arg_b, txVars, fxVars, fftVars, szVars>>

ArNext ==
    \/ ApplyAdd
    \/ ApplySub
    \/ ApplyMul

-----------------------------------------------------------------------------
(***************************************************************************)
(* FixedPointFFT (fixedpoint_fft.h).  Arrays are functions on 0..N-1 so    *)
(* that indices are the source's.                                          *)
(***************************************************************************)

\* C++ integer division: truncation toward zero
CDiv(a, b) ==
    LET AbsV(x) == IF x < 0 THEN -x ELSE x
        q == AbsV(a) \div AbsV(b)
    IN IF (a < 0) = (b < 0) THEN q ELSE -q

RECURSIVE FoldAboveOne(_)
\* while (angle_q15 > Q15_ONE) angle_q15 -= 2 * Q15_ONE;
FoldAboveOne(angle) ==
    IF angle > Q15_ONE THEN FoldAboveOne(angle - 2 * Q15_ONE) ELSE angle

RECURSIVE FoldBelowMinusOne(_)
\* while (angle_q15 < -Q15_ONE) angle_q15 += 2 * Q15_ONE;
FoldBelowMinusOne(angle) ==
    IF angle < -Q15_ONE THEN FoldBelowMinusOne(angle + 2 * Q15_ONE) ELSE angle

\* int16_t sin_q15(int32_t angle_q15)
sin_q15(angle_q15) ==
    LET a0 == FoldBelowMinusOne(FoldAboveOne(angle_q15))
        negate == a0 < 0
        a1 == IF negate THEN -a0 ELSE a0
        a2 == IF a1 > Shr(Q15_ONE, 1) THEN Q15_ONE - a1 ELSE a1
        x  == a2
        x2 == Shr(x * x, 15)
        x3 == Shr(x2 * x, 15)
        x5 == Shr(x3 * x2, 15)
        r0 == x - CDiv(x3, 6) + CDiv(x5, 120)
        r1 == IF r0 > Q15_ONE THEN Q15_ONE ELSE r0
        result == IF r1 < -Q15_ONE THEN -Q15_ONE ELSE r1
    IN ToInt16(IF negate THEN -result ELSE result)

\* int16_t cos_q15(int32_t angle_q15)
cos_q15(angle_q15) == sin_q15(angle_q15 + Shr(Q15_ONE, 1))

\* angle of W_N^k in the constructor: (int32_t)(-2 * Q15_ONE * k) / N
TwiddleAngle(N, k) == CDiv(-2 * Q15_ONE * k, N)

\* Faulty variant of twiddle_real: the sine is stored in place of the cosine.
twiddle_real_SinForCos(N, k) == sin_q15(TwiddleAngle(N, k))

\* twiddle_real[k] as the constructor fills it
twiddle_real(N, k) == cos_q15(TwiddleAngle(N, k))

\* twiddle_imag[k] as the constructor fills it
twiddle_imag(N, k) == sin_q15(TwiddleAngle(N, k))

\* window_coeffs[n] as the constructor fills it (Hann, BlackmanHarris)
window_coeffs(N, Window, n) ==
    IF Window = "Hann"
    THEN LET angle == CDiv(2 * Q15_ONE * n, N)
             cos_val == cos_q15(angle)
         IN ToInt16(16384 - Shr(cos_val, 1))
    ELSE LET a0 == 11761
             a1 == 16001
             a2 == 4630
             a3 == 383
             cos1 == cos_q15(CDiv(2 * Q15_ONE * n, N))
             cos2 == cos_q15(CDiv(4 * Q15_ONE * n, N))
             cos3 == cos_q15(CDiv(6 * Q15_ONE * n, N))
             v0 == a0 - mul_q15(a1, cos1) + mul_q15(a2, cos2) - mul_q15(a3, cos3)
             v1 == IF v0 > Q15_ONE THEN Q15_ONE ELSE v0
             window_val == IF v1 < 0 THEN 0 ELSE v1
         IN ToInt16(window_val)

\* the Bartlett coefficient apply_window computes on the fly
BartlettVal(N, i) ==
    IF i < N \div 2
    THEN ToInt16(CDiv(i * 2 * Q15_ONE, N))
    ELSE ToInt16(CDiv((N - i) * 2 * Q15_ONE, N))

\* void apply_window(int16_t* data)
apply_window(N, Window, data) ==
    IF Window = "Bartlett"
    THEN [i \in 0..(N - 1) |-> mul_q15(data[i], BartlettVal(N, i))]
    ELSE [i \in 0..(N - 1) |-> mul_q15(data[i], window_coeffs(N, Window, i))]

\* int16_t input_to_q15(InputType value)
input_to_q15(value, bits) ==
    IF bits = 16 THEN ToInt16(value) ELSE ToInt16(Shr(value, 8))

RECURSIVE ReverseLoop(_, _, _, _)
ReverseLoop(x, bits, i, result) ==
    IF i < bits
    THEN ReverseLoop(x \div 2, bits, i + 1, ((result * 2) % 65536) + (x % 2))
    ELSE result

\* uint16_t reverse_bits(uint16_t x, uint16_t bits)
reverse_bits(x, bits) == ReverseLoop(x, bits, 0, 0)

RECURSIVE Log2Loop(_, _)
Log2Loop(n, bits) == IF n > 1 THEN Log2Loop(n \div 2, bits + 1) ELSE bits

\* uint16_t log2_n()
log2_n(N) == Log2Loop(N, 0)

\* bit_reverse[i] as the constructor fills it
bit_reverse(N, i) == reverse_bits(i, log2_n(N))

RECURSIVE PermuteLoop_SwapsAlways(_, _, _)
\* Faulty variant of PermuteLoop: the swap is not guarded by i < j.
PermuteLoop_SwapsAlways(N, i, r) ==
    IF i < N
    THEN LET j == bit_reverse(N, i)
         IN PermuteLoop_SwapsAlways(N, i + 1,
                [r EXCEPT ![i] = r[j], ![j] = r[i]])
    ELSE r

RECURSIVE PermuteLoop(_, _, _)
\* the bit-reversal permutation loop of magnitudes()
PermuteLoop(N, i, r) ==
    IF i < N
    THEN LET j == bit_reverse(N, i)
         IN PermuteLoop(N, i + 1,
                IF i < j THEN [r EXCEPT ![i] = r[j], ![j] = r[i]] ELSE r)
    ELSE r

\* Faulty variant of need_scale: the scan looks at the positive bound only.
need_scale_PositiveOnly(N, re, im) ==
    \E i \in 0..(N - 1) : re[i] > 16384 \/ im[i] > 16384

\* the rescale guard's scan
need_scale(N, re, im) ==
    \E i \in 0..(N - 1) :
        re[i] > 16384 \/ re[i] < -16384 \/ im[i] > 16384 \/ im[i] < -16384

\* The rescale guard's shift of one array: every value >>= 1
rescaled(N, arr) == [i \in 0..(N - 1) |-> Shr(arr[i], 1)]

\* Faulty variant of Butterfly: the sum and the difference land in each
\* other's slot.
Butterfly_SumDiffSwapped(N, b, i1, i2, idx) ==
    LET wr == twiddle_real(N, idx)
        wi == twiddle_imag(N, idx)
        tr == sub_sat(mul_q15(b.re[i2], wr), mul_q15(b.im[i2], wi))
        ti == add_sat(mul_q15(b.re[i2], wi), mul_q15(b.im[i2], wr))
    IN [re |-> [b.re EXCEPT ![i2] = add_sat(b.re[i1], tr),
                            ![i1] = sub_sat(b.re[i1], tr)],
        im |-> [b.im EXCEPT ![i2] = add_sat(b.im[i1], ti),
                            ![i1] = sub_sat(b.im[i1], ti)]]

\* one butterfly of magnitudes(), on the pair (i1, i2) with twiddle idx
Butterfly(N, b, i1, i2, idx) ==
    LET wr == twiddle_real(N, idx)
        wi == twiddle_imag(N, idx)
        tr == sub_sat(mul_q15(b.re[i2], wr), mul_q15(b.im[i2], wi))
        ti == add_sat(mul_q15(b.re[i2], wi), mul_q15(b.im[i2], wr))
    IN [re |-> [b.re EXCEPT ![i2] = sub_sat(b.re[i1], tr),
                            ![i1] = add_sat(b.re[i1], tr)],
        im |-> [b.im EXCEPT ![i2] = sub_sat(b.im[i1], ti),
                            ![i1] = add_sat(b.im[i1], ti)]]

RECURSIVE ButterflyLoop(_, _, _, _, _)
\* for (k = 0; k < N; k += m) for (j = 0; j < m2; j++) ...
ButterflyLoop(N, m, k, j, b) ==
    LET m2 == m \div 2
    IN IF k >= N THEN b
       ELSE IF j >= m2 THEN ButterflyLoop(N, m, k + m, 0, b)
       ELSE ButterflyLoop(N, m, k, j + 1,
                Butterfly(N, b, k + j, k + j + m2, CDiv(j * N, m)))

\* Faulty variant of approx_mag: an extra unit of rounding bias.
approx_mag_Biased(real_val, imag_val) ==
    LET r  == IF real_val < 0 THEN -real_val ELSE real_val
        im == IF imag_val < 0 THEN -imag_val ELSE imag_val
    IN Max(r, im) + Shr(Min(r, im), 1) + 1

\* mag = max(|re|,|im|) + (min(|re|,|im|) >> 1), as compute_magnitude and
\* both passes of normalize_magnitudes_uint16 compute it
approx_mag(real_val, imag_val) ==
    LET r  == IF real_val < 0 THEN -real_val ELSE real_val
        im == IF imag_val < 0 THEN -imag_val ELSE imag_val
        max_val == IF r > im THEN r ELSE im
        min_val == IF r < im THEN r ELSE im
    IN max_val + Shr(min_val, 1)

\* OutputType compute_magnitude(real_val, imag_val, scale_count); the
\* uint32_t clamp `scaled_mag > 4294967295LL` is written on the upper half.
compute_magnitude(real_val, imag_val, sc, bits) ==
    LET scaled_mag == Shl(approx_mag(real_val, imag_val), sc)
    IN IF bits = 16
       THEN IF scaled_mag > 65535 THEN 65535
            ELSE IF scaled_mag < 0 THEN 0 ELSE scaled_mag
       ELSE IF scaled_mag \div 65536 > 65535 THEN 65535 * 65536 + 65535
            ELSE IF scaled_mag < 0 THEN 0 ELSE scaled_mag

RECURSIVE PeakLoop_SkipsNyquist(_, _, _, _, _)
\* Faulty variant of PeakLoop: the scan stops before bin N/2.
PeakLoop_SkipsNyquist(N, re, im, sc, i) ==
    IF i >= N \div 2 THEN 0
    ELSE LET mag  == Shl(approx_mag(re[i], im[i]), sc)
             rest == PeakLoop_SkipsNyquist(N, re, im, sc, i + 1)
         IN IF mag > rest THEN mag ELSE rest

RECURSIVE PeakLoop(_, _, _, _, _)
\* normalize_magnitudes_uint16, first pass
PeakLoop(N, re, im, sc, i) ==
    IF i > N \div 2 THEN 0
    ELSE LET mag  == Shl(approx_mag(re[i], im[i]), sc)
             rest == PeakLoop(N, re, im, sc, i + 1)
         IN IF mag > rest THEN mag ELSE rest

RECURSIVE ShiftLoop(_, _, _)
\* while (temp > limit) { temp >>= 1; norm_shift++; }
ShiftLoop(temp, limit, shift) ==
    IF temp > limit THEN ShiftLoop(Shr(temp, 1), limit, shift + 1) ELSE shift

\* Faulty variant of norm_shift_of: 80% of the signed range, 32767, is taken as the
\* threshold.
norm_shift_of_SignedRange(max_mag) == ShiftLoop(max_mag, 26213, 0)

\* normalize_magnitudes_uint16: the normalization shift for a peak
norm_shift_of(max_mag) ==
    IF max_mag > 52428 THEN ShiftLoop(max_mag, 52428, 0) ELSE 0

\* Faulty variant of normalized_bin: the clamp uses the int16_t maximum.
normalized_bin_ClampInt16(real_val, imag_val, sc, shift) ==
    LET mag == Shr(Shl(approx_mag(real_val, imag_val), sc), shift)
    IN IF mag > 32767 THEN 32767 ELSE IF mag < 0 THEN 0 ELSE mag

\* normalize_magnitudes_uint16, second pass: the value written to one bin
normalized_bin(real_val, imag_val, sc, shift) ==
    LET mag == Shr(Shl(approx_mag(real_val, imag_val), sc), shift)
    IN IF mag > 65535 THEN 65535 ELSE IF mag < 0 THEN 0 ELSE mag

-----------------------------------------------------------------------------
(* magnitudes(), step by step *)

\* Engine sizes N explored
Sizes == {2, 4, 8, 16}

Windows == {"Bartlett", "Hann", "BlackmanHarris"}

\* Sample amplitudes explored (int16_t range)
Amplitudes ==
    {-32768, -16000, 0, 1, 9000, 16000, 24589, 24590, 26000, 32767}

\* WaveGen<Fs, 16>::sin(Fs / 16): static_cast<int16_t>(32767 * std::sin(x))
\* for x = 2 * pi * i / 16, i = 0..15 (the cast truncates toward zero)
SineTable ==
    <<0, 12539, 23169, 30272, 32767, 30272, 23169, 12539,
      0, -12539, -23169, -30272, -32767, -30272, -23169, -12539>>

\* WaveGen<Fs, N>::sin(k * Fs / N) for N dividing 16: sample i is the sine
\* of 2 * pi * k * i / N
SineBlock(N, k) ==
    [i \in 0..(N - 1) |-> SineTable[((k * i * (16 \div N)) % 16) + 1]]

\* The bin frequencies k * Fs / N with 1 <= k <= N/2 - 1
SineBins(N) == 1..((N \div 2) - 1)

\* Sample blocks explored, as int16_t values: constant blocks, alternating
\* blocks, single impulses, sines at the bin frequencies, and for N <= 4
\* every block over three levels.
Blocks16(N) ==
    {[i \in 0..(N - 1) |-> a] : a \in Amplitudes}
    \cup {[i \in 0..(N - 1) |-> IF i % 2 = 0 THEN a ELSE -a] :
              a \in Amplitudes \ {-32768}}
    \cup {[i \in 0..(N - 1) |-> IF i = 1 THEN a ELSE 0] : a \in Amplitudes}
    \cup {SineBlock(N, k) : k \in SineBins(N)}
    \cup (IF N <= 4 THEN [0..(N - 1) -> {-32768, 0, 32767}] ELSE {})

\* The same blocks as wide (24-bit significant) int32_t samples, and the
\* constant blocks again with the low byte set.
Blocks(N, bits) ==
    IF bits = 16 THEN Blocks16(N)
    ELSE {[i \in 0..(N - 1) |-> b[i] * 256] : b \in Blocks16(N)}
         \cup {[i \in 0..(N - 1) |-> a * 256 + 255] : a \in Amplitudes}

Zeros(N) == [i \in 0..(N - 1) |-> 0]

FftInit ==
    /\ fft_n \in Sizes
    /\ fft_window \in Windows
    /\ in_bits \in {16, 32}
    /\ out_bits \in {16, 32}
    /\ input \in Blocks(fft_n, in_bits)
    /\ real = Zeros(fft_n)
    /\ imag = Zeros(fft_n)
    /\ scale_count = 0
    /\ stage = 0
    /\ fft_pc = "load"
    /\ max_magnitude = 0
    /\ norm_shift = 0
    /\ magnitudes = <<>>

FftParked ==
    /\ fft_n = 2
    /\ fft_window = "Bartlett"
    /\ in_bits = 16
    /\ out_bits = 16
    /\ input = Zeros(2)
    /\ real = Zeros(2)
    /\ imag = Zeros(2)
    /\ scale_count = 0
    /\ stage = 0
    /\ fft_pc = "parked"
    /\ max_magnitude = 0
    /\ norm_shift = 0
    /\ magnitudes = <<>>

\* Convert input to Q15 and initialize
LoadInput ==
    /\ fft_pc = "load"
    /\ real' = [i \in 0..(fft_n - 1) |-> input_to_q15(input[i], in_bits)]
    /\ imag' = Zeros(fft_n)
    /\ fft_pc' = "window"
    /\ UNCHANGED <<fft_n, fft_window, in_bits, out_bits, input, scale_count,
                   stage, max_magnitude, norm_shift, magnitudes>>
    /\ UNCHANGED <<txVars, fxVars, arVars, szVars>>

\* apply_window(real)
ApplyWindow ==
    /\ fft_pc = "window"
    /\ real' = apply_window(fft_n, fft_window, real)
    /\ fft_pc' = "permute"
    /\ UNCHANGED <<fft_n, fft_window, in_bits, out_bits, input, imag,
                   scale_count, stage, max_magnitude, norm_shift, magnitudes>>
    /\ UNCHANGED <<txVars, fxVars, arVars, szVars>>

\* Bit-reversal permutation; then scale_count = 0, stage = 1
BitReversal ==
    /\ fft_pc = "permute"
    /\ real' = PermuteLoop(fft_n, 0, real)
    /\ scale_count' = 0
    /\ stage' = 1
    /\ fft_pc' = "guard"
    /\ UNCHANGED <<fft_n, fft_window, in_bits, out_bits, input, imag,
                   max_magnitude, norm_shift, magnitudes>>
    /\ UNCHANGED <<txVars, fxVars, arVars, szVars>>

\* "Check if we need to scale this stage to prevent overflow"
ScaleGuard ==
    /\ fft_pc = "guard"
    /\ IF need_scale(fft_n, real, imag)
       THEN /\ real' = rescaled(fft_n, real)
            /\ imag' = rescaled(fft_n, imag)
            /\ scale_count' = scale_count + 1
       ELSE UNCHANGED <<real, imag, scale_count>>
    /\ fft_pc' = "butterfly"
    /\ UNCHANGED <<fft_n, fft_window, in_bits, out_bits, input, stage,
                   max_magnitude, norm_shift, magnitudes>>
    /\ UNCHANGED <<txVars, fxVars, arVars, szVars>>

\* The butterflies of one stage; the stage loop ends after log2_n() stages
Butterflies ==
    /\ fft_pc = "butterfly"
    /\ LET b == ButterflyLoop(fft_n, Pow2(stage), 0, 0,
                              [re |-> real, im |-> imag])
       IN /\ real' = b.re
          /\ imag' = b.im
    /\ stage' = stage + 1
    /\ fft_pc' = IF stage + 1 <= log2_n(fft_n) THEN "guard" ELSE "output"
    /\ UNCHANGED <<fft_n, fft_window, in_bits, out_bits, input, scale_count,
                   max_magnitude, norm_shift, magnitudes>>
    /\ UNCHANGED <<txVars, fxVars, arVars, szVars>>

\* normalize_magnitudes_uint16: first pass, find max magnitude
FindPeak ==
    /\ fft_pc = "output"
    /\ out_bits = 16
    /\ max_magnitude' = PeakLoop(fft_n, real, imag, scale_count, 0)
    /\ fft_pc' = "shift"
    /\ UNCHANGED <<fft_n, fft_window, in_bits, out_bits, input, real, imag,
                   scale_count, stage, norm_shift, magnitudes>>
    /\ UNCHANGED <<txVars, fxVars, arVars, szVars>>

\* normalize_magnitudes_uint16: calculate normalization shift if needed
CalcShift ==
    /\ fft_pc = "shift"
    /\ norm_shift' = norm_shift_of(max_magnitude)
    /\ fft_pc' = "pass2"
    /\ UNCHANGED <<fft_n, fft_window, in_bits, out_bits, input, real, imag,
                   scale_count, stage, max_magnitude, magnitudes>>
    /\ UNCHANGED <<txVars, fxVars, arVars, szVars>>

\* normalize_magnitudes_uint16: second pass, compute normalized magnitudes
WriteNormalized ==
    /\ fft_pc = "pass2"
    /\ magnitudes' = [i \in 0..(fft_n \div 2) |->
                         normalized_bin(real[i], imag[i], scale_count, norm_shift)]
    /\ fft_pc' = "done"
    /\ UNCHANGED <<fft_n, fft_window, in_bits, out_bits, input, real, imag,
                   scale_count, stage, max_magnitude, norm_shift>>
    /\ UNCHANGED <<txVars, fxVars, arVars, szVars>>

\* uint32_t output - no normalization needed
WriteWide ==
    /\ fft_pc = "output"
    /\ out_bits = 32
    /\ magnitudes' = [i \in 0..(fft_n \div 2) |->
                         compute_magnitude(real[i], imag[i], scale_count, out_bits)]
    /\ fft_pc' = "done"
    /\ UNCHANGED <<fft_n, fft_window, in_bits, out_bits, input, real, imag,
                   scale_count, stage, max_magnitude, norm_shift>>
    /\ UNCHANGED <<txVars, fxVars, arVars, szVars>>

FftNext ==
    \/ LoadInput
    \/ ApplyWindow
    \/ BitReversal
    \/ ScaleGuard
    \/ Butterflies
    \/ FindPeak
    \/ CalcShift
    \/ WriteNormalized
    \/ WriteWide

-----------------------------------------------------------------------------
(* magnitudes() as one function of the sample block *)

RECURSIVE StageLoop(_, _, _)
\* for (stage = 1; stage <= log2_n(); stage++) { guard; butterflies }
\* s.scaled collects the stages whose guard rescaled.
StageLoop(N, st, s) ==
    IF st > log2_n(N) THEN s
    ELSE LET scale == need_scale(N, s.re, s.im)
             g == IF scale
                  THEN [re |-> rescaled(N, s.re), im |-> rescaled(N, s.im)]
                  ELSE [re |-> s.re, im |-> s.im]
             b == ButterflyLoop(N, Pow2(st), 0, 0, g)
         IN StageLoop(N, st + 1,
                [re |-> b.re, im |-> b.im,
                 scale_count |-> s.scale_count + (IF scale THEN 1 ELSE 0),
                 scaled |-> s.scaled \cup (IF scale THEN {st} ELSE {})])

\* magnitudes() up to the end of the stage loop
Transform(N, Window, bits, data) ==
    LET loaded   == [i \in 0..(N - 1) |-> input_to_q15(data[i], bits)]
        windowed == apply_window(N, Window, loaded)
        permuted == PermuteLoop(N, 0, windowed)
    IN StageLoop(N, 1, [re |-> permuted, im |-> Zeros(N),
                        scale_count |-> 0, scaled |-> {}])

\* The normalization shift magnitudes() applies to a transformed block
ShiftOf(N, t, obits) ==
    IF obits = 16
    THEN norm_shift_of(PeakLoop(N, t.re, t.im, t.scale_count, 0))
    ELSE 0

\* The output loop of magnitudes() on a transformed block
Spectrum(N, t, obits) ==
    [i \in 0..(N \div 2) |->
        IF obits = 16
        THEN normalized_bin(t.re[i], t.im[i], t.scale_count,
                            ShiftOf(N, t, obits))
        ELSE compute_magnitude(t.re[i], t.im[i], t.scale_count, obits)]

-----------------------------------------------------------------------------
(* Instantiating FixedPointFFT<N, ...>: the compile-time size check *)

RECURSIVE AndLoop(_, _, _)
\* the low w bits of a & b, for int operands in two's complement
AndLoop(a, b, w) ==
    IF w = 0 THEN 0
    ELSE (a % 2) * (b % 2) + 2 * AndLoop(a \div 2, b \div 2, w - 1)

\* a & b on int, for a >= 0 (the sign bit of the result is then clear)
BitAnd(a, b) == AndLoop(a, b, 31)

\* (N & (N - 1)) == 0, N promoted from uint16_t to int
SizeCheck(N) == BitAnd(N, N - 1) = 0

\* Every value of the uint16_t template parameter
SizeArgs == 0..65535

SzInit ==
    /\ size_n \in SizeArgs
    /\ size_pc = "assert"
    /\ size_accepted = FALSE
    /\ build_ok = FALSE

SzParked ==
    /\ size_n = 2
    /\ size_pc = "parked"
    /\ size_accepted = FALSE
    /\ build_ok = FALSE

\* static_assert((N & (N - 1)) == 0, "FFT size must be power of 2")
StaticAssert ==
    /\ size_pc = "assert"
    /\ size_accepted' = SizeCheck(size_n)
    /\ size_pc' = IF SizeCheck(size_n) THEN "arrays" ELSE "end"
    /\ UNCHANGED <<size_n, build_ok>>
    /\ UNCHANGED <<txVars, fxVars, arVars, fftVars>>

\* The member arrays twiddle_real[N/2], twiddle_imag[N/2], bit_reverse[N]:
\* an array of zero length is ill-formed in ISO C++ and a GNU extension, so
\* for N < 2 the compiler in use decides.
DeclareArrays ==
    /\ size_pc = "arrays"
    /\ build_ok' \in (IF size_n \div 2 = 0 THEN BOOLEAN ELSE {TRUE})
    /\ size_pc' = "end"
    /\ UNCHANGED <<size_n, size_accepted>>
    /\ UNCHANGED <<txVars, fxVars, arVars, fftVars>>

SzNext ==
    \/ StaticAssert
    \/ DeclareArrays

-----------------------------------------------------------------------------
(* Specifications *)

\* Initial states: one sub-system starts, the others stay parked
TxStart == TxInit /\ FxInit /\ ArParked /\ FftParked /\ SzParked

FxStart == TxInit /\ FxInit /\ ArParked /\ FftParked /\ SzParked

ArStart == TxInit /\ FxInit /\ ArInit /\ FftParked /\ SzParked

FftStart == TxInit /\ FxInit /\ ArParked /\ FftInit /\ SzParked

\* The transmission channel
TxSpec == TxStart /\ [][TxNext]_vars

\* The transmission channel with the scheduling the hardware gives: the DMA
\* engine keeps moving words, its completion interrupt is delivered, and the
\* main path, spinning inside send(), keeps running.
TxFairSpec ==
    /\ TxSpec
    /\ WF_vars(DmaWord)
    /\ WF_vars(DmaIrq)
    /\ WF_vars(SendStart)

\* The Frame and the effects drawing into it
FxSpec == FxStart /\ [][FxNext]_vars

\* The saturating Q15 operations applied to operand pairs
ArSpec == ArStart /\ [][ArNext]_vars

\* magnitudes() on the explored engines and sample blocks
FftSpec == FftStart /\ [][FftNext]_vars

SizeStart == TxInit /\ FxInit /\ ArParked /\ FftParked /\ SzInit

\* The build of FixedPointFFT<N, ...> for every template argument N
SizeSpec == SizeStart /\ [][SzNext]_vars

-----------------------------------------------------------------------------
(* Properties *)

FullCycle == <<"Transmitting", "ResetPending", "Idle">>

\* C1: a transfer is started only when the channel is Idle: the step that
\* starts a frame leaves from phase Idle with nothing in flight, the frame
\* started before it has gone through Transmitting, Reset-Pending and Idle,
\* and at most one frame is ever in flight.
C1_SendStartsOnlyWhenIdle ==
    [][/\ in_flight' <= 1
       /\ frames_started' # frames_started =>
            /\ phase = "Idle"
            /\ in_flight = 0
            /\ (frames_started > 0 => hist = FullCycle)]_vars

\* C1 witness: a send() called while the previous frame was still on the
\* wire has started its own transfer.
C1_Witness ==
    /\ frames_started >= 2
    /\ waited
    /\ main_pc = "compose"
    /\ phase = "Transmitting"
    /\ hist = <<"Transmitting">>

\* C2: with the completion interrupt delivered and the reset gap ending,
\* every send() call returns and the channel comes back to Idle after each
\* frame (unless the process aborts); send() has no timeout: it returns only
\* from phase Idle.
C2_SendEventuallyReturns ==
    /\ (main_pc = "in_send") ~> (main_pc = "compose")
    /\ (phase # "Idle") ~> (phase = "Idle" \/ aborted)
    /\ [][(main_pc = "in_send" /\ main_pc' = "compose") => phase = "Idle"]_vars

\* C2 witness: a send() that had to wait has returned, and the channel is
\* Idle again after its frame.
C2_Witness ==
    /\ frames_started >= 2
    /\ waited
    /\ main_pc = "compose"
    /\ phase = "Idle"
    /\ hist = FullCycle

\* C3: at most one WS2811Pio exists at any time: a constructor call made
\* while an instance exists adds no instance and aborts the process, and an
\* instance is only ever added when none exists.
C3_SingleInstance ==
    [][/\ Cardinality(live') <= 1
       /\ (ctor_calls' # ctor_calls /\ live # {}) => (aborted' /\ live' = live)
       /\ (live' \ live # {}) => (live = {} /\ instance_ = Null)]_vars

\* C3 witness: a second construction was attempted while an instance
\* existed, and the process aborted.
C3_Witness ==
    /\ aborted
    /\ ctor_calls >= 2
    /\ Cardinality(live) = 1

\* C4: num_leds equals the request when the request is below MAX_LEDS,
\* equals MAX_LEDS when it is above, and is at most MAX_LED_DATA_LEN for
\* every value of the constructor's int parameter.
C4_NumLedsClamped ==
    frame_made =>
        /\ (num_of_leds < MAX_LEDS => U32Is(num_leds, num_of_leds))
        /\ (num_of_leds > MAX_LEDS => U32Is(num_leds, MAX_LEDS))
        /\ U32AtMost(num_leds, MAX_LED_DATA_LEN)

\* C5: the view Frame::data has length exactly num_leds, and so never
\* reaches beyond the MAX_LED_DATA_LEN pixels of backing storage.
C5_ViewLengthIsNumLeds ==
    frame_made =>
        /\ data_size = num_leds
        /\ U32AtMost(data_size, MAX_LED_DATA_LEN)

\* C6: every effect writes only pixel indices below frame.num_leds.
C6_WritesWithinActiveRange ==
    (wr_hi # -1) => wr_hi < NumLeds

ZeroInput == \A i \in 0..(fft_n - 1) : input[i] = 0

Bins == 0..(fft_n \div 2)

\* C7: an all-zero sample block yields 0 in every one of the N/2+1 output
\* bins, for every window type, input width and output width.
C7_ZeroBlockZeroSpectrum ==
    (fft_pc = "done" /\ ZeroInput) =>
        /\ DOMAIN magnitudes = Bins
        /\ \A i \in Bins : magnitudes[i] = 0

\* C7 witness: magnitudes() has finished on an all-zero wide block with the
\* Blackman-Harris window and wide output.
C7_Witness ==
    /\ fft_pc = "done"
    /\ ZeroInput
    /\ fft_n = 16
    /\ fft_window = "BlackmanHarris"
    /\ in_bits = 32
    /\ out_bits = 32

SatOf(x) == IF x > 32767 THEN 32767 ELSE IF x < -32768 THEN -32768 ELSE x

\* C8: add_sat, sub_sat and mul_q15 return the exact result (a+b, a-b, the
\* product scaled down by 15 bits) when it lies in [-32768, 32767], 32767
\* when it is above and -32768 when it is below; never a wrapped value.
C8_SaturatingArithmetic ==
    /\ ar_res \in -32768..32767
    /\ ar_op = "add" => ar_res = SatOf(arg_a + arg_b)
    /\ ar_op = "sub" => ar_res = SatOf(arg_a - arg_b)
    /\ ar_op = "mul" =>
         LET p == arg_a * arg_b
         IN IF p >= 32768 * 32768 THEN ar_res = 32767
            ELSE IF p < -32768 * 32768 THEN ar_res = -32768
            ELSE ar_res * 32768 <= p /\ p < (ar_res + 1) * 32768

\* C8 witness: the product whose exact value, 32768, is above the range has
\* been computed and clamped.
C8_Witness ==
    /\ ar_op = "mul"
    /\ arg_a = -32768
    /\ arg_b = -32768
    /\ ar_res = 32767

\* the rescaled magnitude of bin i, from the transform's result
BinMagnitude(i) == Shl(approx_mag(real[i], imag[i]), scale_count)

TruePeak ==
    CHOOSE m \in {BinMagnitude(i) : i \in Bins} :
        \A i \in Bins : BinMagnitude(i) <= m

LargestWritten ==
    CHOOSE m \in {magnitudes[i] : i \in Bins} :
        \A i \in Bins : magnitudes[i] <= m

NarrowDone == fft_pc = "done" /\ out_bits = 16

\* C9 (as amended): narrow output: whenever the true peak rescaled
\* magnitude exceeds 65535, the largest value written is at most 52428 and
\* at least 26214.
C9_NormalizedPeakUnderThreshold ==
    (NarrowDone /\ TruePeak > 65535) =>
        (LargestWritten <= 52428 /\ LargestWritten >= 26214)

\* C9 (as claimed): narrow output: whenever the true peak rescaled
\* magnitude exceeds 65535, the largest value written is <= 65535 and
\* > 52428.
C9_NormalizedPeakAboveThreshold ==
    (NarrowDone /\ TruePeak > 65535) =>
        (LargestWritten <= 65535 /\ LargestWritten > 52428)

\* C9 witness: a narrow-output run whose true peak exceeds the 16-bit range
\* has been normalized.
C9_Witness ==
    /\ NarrowDone
    /\ TruePeak > 65535
    /\ norm_shift >= 1

Unnormalized == \A i \in Bins :
    magnitudes[i] = compute_magnitude(real[i], imag[i], scale_count, 16)

\* C10 (as amended): narrow output: whenever the true peak rescaled
\* magnitude does not exceed 52428 (80% of the range), no normalization
\* shift is applied and every bin equals the value compute_magnitude yields.
C10_NoShiftUnderThreshold ==
    (NarrowDone /\ TruePeak <= 52428) => (norm_shift = 0 /\ Unnormalized)

\* C10 (as claimed): narrow output: whenever the true peak rescaled
\* magnitude does not exceed 65535, no normalization shift is applied and
\* every bin equals the value compute_magnitude yields.
C10_NoShiftUnderRange ==
    (NarrowDone /\ TruePeak <= 65535) => (norm_shift = 0 /\ Unnormalized)

\* C10 witness: a narrow-output run with a peak above 32767 and under the
\* threshold has written its bins unshifted.
C10_Witness ==
    /\ NarrowDone
    /\ TruePeak <= 52428
    /\ TruePeak > 32767
    /\ norm_shift = 0


\* Constant sample blocks of non-negative amplitude
ConstantBlocks(N, bits) ==
    {b \in Blocks(N, bits) : b[0] >= 0 /\ \A i \in 0..(N - 1) : b[i] = b[0]}

\* The DC bin magnitudes() returns for block b on the engine in hand
DcOf(b) ==
    Spectrum(fft_n, Transform(fft_n, fft_window, in_bits, b), out_bits)[0]

\* Block b goes through the same rescaling as the block in hand: the guard
\* rescales before the same stages and the normalization shift is the same
SameScaling(b) ==
    LET t == Transform(fft_n, fft_window, in_bits, b)
        u == Transform(fft_n, fft_window, in_bits, input)
    IN /\ t.scaled = u.scaled
       /\ ShiftOf(fft_n, t, out_bits) = norm_shift

ConstantDone ==
    fft_pc = "done" /\ input \in ConstantBlocks(fft_n, in_bits)

\* C11 (as amended): for constant blocks of amplitudes 0 <= a1 <= a2 that
\* magnitudes() rescales alike (the guard fires before the same stages and
\* the normalization shift is the same), magnitudes[0] for a1 is at most
\* magnitudes[0] for a2, on every engine size, window and sample width.
C11_DcBinNonDecreasingSameScaling ==
    ConstantDone =>
        \A b \in ConstantBlocks(fft_n, in_bits) :
            (b[0] <= input[0] /\ SameScaling(b)) => DcOf(b) <= magnitudes[0]

\* C11 (as claimed): for constant blocks of amplitudes 0 <= a1 <= a2,
\* magnitudes[0] for a1 is at most magnitudes[0] for a2, on every engine
\* size, window and sample width.
C11_DcBinNonDecreasing ==
    ConstantDone =>
        \A b \in ConstantBlocks(fft_n, in_bits) :
            b[0] <= input[0] => DcOf(b) <= magnitudes[0]

\* a rescaled constant block whose DC bin is strictly above that of a
\* smaller constant block rescaled alike
C11_Witness ==
    /\ ConstantDone
    /\ scale_count >= 1
    /\ \E b \in ConstantBlocks(fft_n, in_bits) :
          /\ 0 < b[0] /\ b[0] < input[0]
          /\ SameScaling(b)
          /\ DcOf(b) < magnitudes[0]

\* The stepwise run and the one-function form of magnitudes() agree
StepsMatchTransform ==
    fft_pc = "done" =>
        LET t == Transform(fft_n, fft_window, in_bits, input)
        IN /\ t.re = real /\ t.im = imag /\ t.scale_count = scale_count
           /\ Spectrum(fft_n, t, out_bits) = magnitudes
           /\ ShiftOf(fft_n, t, out_bits) = norm_shift

\* The block in hand is the sine at bin frequency k * Fs / N (a wide block
\* carries the 16-bit samples in its upper bits)
SineInput(k) ==
    input = [i \in 0..(fft_n - 1) |->
                IF in_bits = 16 THEN SineBlock(fft_n, k)[i]
                ELSE SineBlock(fft_n, k)[i] * 256]

\* C12: for a block holding the sine at an exact bin frequency k * Fs / N
\* with 1 <= k <= N/2 - 1, the output bin with the largest magnitude is bin
\* k: every other bin is strictly smaller, for every window type (N in
\* Sizes, integer sample tables as WaveGen produces them).
C12_SinePeaksAtItsBin ==
    \A k \in SineBins(fft_n) :
        (fft_pc = "done" /\ SineInput(k)) =>
            \A i \in Bins \ {k} : magnitudes[i] < magnitudes[k]

\* a finished run on an interior bin's sine of the largest engine, with
\* neighbours on both sides and a non-zero peak
C12_Witness ==
    /\ fft_pc = "done"
    /\ fft_n = 16
    /\ fft_window = "BlackmanHarris"
    /\ SineInput(5)
    /\ magnitudes[5] > 0
    /\ magnitudes[4] > 0

\* N = 2^e for some e (uint16_t N)
IsPowerOfTwo(N) == \E e \in 0..15 : N = Pow2(e)

\* C13 (as claimed): the size check accepts N exactly when N is a power of
\* two, and every N in 0..65535 that is not a power of two is rejected at
\* build time.
C13_SizeCheckAcceptsPowersOfTwoOnly ==
    /\ size_pc \in {"arrays", "end"} =>
           (size_accepted <=> IsPowerOfTwo(size_n))
    /\ (size_pc = "end" /\ ~IsPowerOfTwo(size_n)) => ~build_ok

\* C14: narrow output: norm_shift is the smallest non-negative s with
\* (peak >> s) <= 52428, peak being the largest rescaled magnitude over bins
\* 0..N/2 (so norm_shift = 0 when peak <= 52428); every output bin equals
\* min(65535, rescaled magnitude >> norm_shift), and every output value is
\* at most 52428.
C14_MinimalNormalizationShift ==
    NarrowDone =>
        /\ Shr(TruePeak, norm_shift) <= 52428
        /\ \A s \in 0..(norm_shift - 1) : Shr(TruePeak, s) > 52428
        /\ \A i \in Bins :
              /\ magnitudes[i] = Min(65535, Shr(BinMagnitude(i), norm_shift))
              /\ magnitudes[i] <= 52428

\* a peak above the threshold but inside the 16-bit range was shifted once
C14_Witness ==
    /\ NarrowDone
    /\ TruePeak > 52428
    /\ TruePeak <= 65535
    /\ norm_shift = 1
    /\ LargestWritten = Shr(TruePeak, 1)

\* some real or imaginary value is > 16384 or < -16384
OutOfGuardRange ==
    \E i \in 0..(fft_n - 1) :
        \/ real[i] > 16384 \/ real[i] < -16384
        \/ imag[i] > 16384 \/ imag[i] < -16384

\* C15: the rescale guard runs once before the butterflies of each of the
\* log2(N) stages; it shifts every real and imaginary value right by one
\* bit and increments scale_count exactly when some value is > 16384 or
\* < -16384, and otherwise changes nothing; so when a stage's butterflies
\* start every value lies in [-16384, 16384], and scale_count never exceeds
\* log2(N).
C15_RescaleGuard ==
    [][/\ fft_pc = "guard" =>
            /\ fft_pc' = "butterfly"
            /\ stage' = stage /\ stage \in 1..log2_n(fft_n)
            /\ IF OutOfGuardRange
               THEN /\ \A i \in 0..(fft_n - 1) :
                         /\ real'[i] = Shr(real[i], 1)
                         /\ imag'[i] = Shr(imag[i], 1)
                    /\ scale_count' = scale_count + 1
               ELSE /\ real' = real /\ imag' = imag
                    /\ scale_count' = scale_count
       /\ fft_pc' = "butterfly" =>
            /\ fft_pc = "guard"
            /\ \A i \in 0..(fft_n - 1) :
                  /\ real'[i] >= -16384 /\ real'[i] <= 16384
                  /\ imag'[i] >= -16384 /\ imag'[i] <= 16384
       /\ fft_pc = "butterfly" =>
            /\ scale_count' = scale_count
            /\ stage' = stage + 1
            /\ fft_pc' = (IF stage < log2_n(fft_n) THEN "guard" ELSE "output")
       /\ scale_count' <= log2_n(fft_n)
       /\ scale_count' <= stage']_vars

\* the butterflies of the last stage are about to start, the guard has
\* rescaled twice, and a value is still in the lower half of the range
C15_Witness ==
    /\ fft_pc = "butterfly"
    /\ stage = log2_n(fft_n)
    /\ scale_count = 2
    /\ \E i \in 0..(fft_n - 1) : real[i] < -8192

\* The positions at which the permutation loop swaps
SwapsAt(N) == {i \in 0..(N - 1) : i < bit_reverse(N, i)}

\* C16: the bit-reversal table is a permutation of 0..N-1 that is its own
\* inverse; the permutation step swaps positions i and bit_reverse[i] only
\* when i < bit_reverse[i], so each pair is swapped exactly once, and after
\* the step position i holds the windowed sample that was at position
\* bit_reverse[i], for every i.
C16_BitReversalPermutation ==
    [][fft_pc = "permute" =>
         /\ \A i \in 0..(fft_n - 1) :
               /\ bit_reverse(fft_n, i) \in 0..(fft_n - 1)
               /\ bit_reverse(fft_n, bit_reverse(fft_n, i)) = i
               /\ bit_reverse(fft_n, i) # i =>
                     Cardinality({i, bit_reverse(fft_n, i)}
                                     \cap SwapsAt(fft_n)) = 1
         /\ {bit_reverse(fft_n, i) : i \in 0..(fft_n - 1)} = 0..(fft_n - 1)
         /\ \A i \in 0..(fft_n - 1) :
               real'[i] = real[bit_reverse(fft_n, i)]]_vars

\* the permutation of a 16-sample impulse block has just moved the impulse
\* from position 1 to position 8
C16_Witness ==
    /\ fft_pc = "guard"
    /\ stage = 1
    /\ fft_n = 16
    /\ \A i \in 0..15 : (input[i] # 0) <=> (i = 1)
    /\ \A i \in 0..15 : (real[i] # 0) <=> (i = 8)

\* x is within 1% of full scale (Q15_ONE) of the target value
NearQ15(x, target) ==
    LET d == IF x > target THEN x - target ELSE target - x
    IN d * 100 <= Q15_ONE

\* C17 (as claimed): with Q15_ONE standing for pi, the twiddle factor at
\* k = 0 is (32767, 0) and, for N >= 4, the one at k = N/4 is (0, -32767),
\* each within 1% of full scale; sin_q15 at the quarter turn Q15_ONE >> 1
\* and cos_q15 at 0 return approximately 32767.
C17_TwiddlesAreUnitRoots ==
    fft_pc # "parked" =>
        /\ NearQ15(twiddle_real(fft_n, 0), Q15_ONE)
        /\ NearQ15(twiddle_imag(fft_n, 0), 0)
        /\ fft_n >= 4 =>
              /\ NearQ15(twiddle_real(fft_n, fft_n \div 4), 0)
              /\ NearQ15(twiddle_imag(fft_n, fft_n \div 4), -Q15_ONE)
        /\ NearQ15(sin_q15(Shr(Q15_ONE, 1)), Q15_ONE)
        /\ NearQ15(cos_q15(0), Q15_ONE)

\* The effect the claim names for an index
NamedEffect(index) ==
    IF index = 1 THEN "BlinkEffect"
    ELSE IF index = 2 THEN "BeatBlinkEffect"
    ELSE "LaserEffect"

\* The members of the effects hold their initial values
FreshEffect ==
    /\ position = 0
    /\ laser_length = 0
    /\ cum_elapsed_time_us = 0
    /\ is_on = FALSE

\* C18: the EffectFactory always holds exactly one effect, LaserEffect
\* before any set_effect call; a set_effect(index) call installs the effect
\* named by index alone (LaserEffect for 0, BlinkEffect for 1,
\* BeatBlinkEffect for 2, LaserEffect for every other index), freshly
\* initialised; no other step changes which effect is held.
C18_ActiveEffectFollowsLastIndex ==
    /\ ev_ = "LaserEffect" /\ FreshEffect
    /\ [][/\ ev_' \in {"LaserEffect", "BlinkEffect", "BeatBlinkEffect"}
          /\ \A index \in 0..MaxIndex :
                SetEffect(index) => (ev_' = NamedEffect(index) /\ FreshEffect')
          /\ (~ \E index \in 0..MaxIndex : SetEffect(index)) => ev_' = ev_]_vars

\* a BeatBlinkEffect with fresh members is held after a LaserEffect has
\* drawn its bar past the end of the frame's pixels
C18_Witness ==
    /\ ev_ = "BeatBlinkEffect"
    /\ FreshEffect
    /\ frame_made
    /\ draws >= 1
    /\ wr_hi >= DataSize
=============================================================================
